---- MODULE Spec2Model ----
(***************************************************************************)
(* State-machine model of the webform-wizard Lightning web components:     *)
(*   BetterWebform    (lwc/betterWebform/betterWebform.js), the launcher   *)
(*   WebformRelaunch  (lwc/webformRelaunch/webformRelaunch.js)             *)
(*   docusignWebformIframe, the launcher without a widget                  *)
(*                    (lwc/docusignWebformIframe/docusignWebformIframe.js) *)
(* One behaviour follows one component instance; `component` says which.   *)
(* JavaScript is single threaded: every action is one run-to-completion    *)
(* segment of a handler (from its start, or from the resolution of an      *)
(* await, up to the next await or the handler's end).                      *)
(***************************************************************************)
EXTENDS Integers, Sequences, FiniteSets, TLC

\* ---------------------------------------------------------------- bounds
\* Launches (clicks that reach the first remote call) per component instance.
MaxLaunches == 2
\* The same, in the behaviours that also record the event history.
MaxObservedLaunches == 1
\* Token refreshes a relaunch component starts.
MaxResumes == 2
\* Status-update calls that may be awaiting the backend at the same time.
MaxPending == 1
\* Items in a fetched list.
MaxItems == 3
\* Launches in the behaviours in which the item wire delivers as well.
MaxFetchLaunches == 1
\* Launches of the launcher that has a selection step.
MaxSelectLaunches == 1

\* ---------------------------------------------------------------- values
\* JavaScript's undefined and null (the code only tests them for falsiness).
Null == "null"
NoWidget == 0

Components == {"BetterWebform", "WebformRelaunch", "docusignWebformIframe"}

Statuses == {"Ready", "Submitted", "In Progress"}
EventTypes == {"ready", "submitted", "sessionEnd"}

\* What the remote services return to launch number k.
TokenOf(k) == "t" \o ToString(k)
InstanceIdOf(k) == "i" \o ToString(k)
FormUrlOf(k) == "https://x/f" \o ToString(k)
RecordIdOf(k) == "rec" \o ToString(k)

\* Rejection values of the remote calls: error.body.message and error.message,
\* each present or not.
Errors ==
  { [bodyMessage |-> "remote message", message |-> "generic message"],
    [bodyMessage |-> Null, message |-> "generic message"],
    [bodyMessage |-> Null, message |-> Null] }

\* A variant that prefers the generic message to the structured one.
ErrTextGenericFirst(e, fallback) ==
  IF e.message # Null THEN e.message
  ELSE IF e.bodyMessage # Null THEN e.bodyMessage
  ELSE fallback

\* error?.body?.message || error?.message || fallback
ErrText(e, fallback) ==
  IF e.bodyMessage # Null THEN e.bodyMessage
  ELSE IF e.message # Null THEN e.message
  ELSE fallback

\* The dataset of a clicked element: data-formid and data-recordid.
FormIds == {Null, "f1"}
ItemIds == {Null, "c1"}

\* The items getConditions returns: records with an Id and a Category__c,
\* which a record may lack (Null).
Categories == {"A", "B", Null}
Item(i, c) == [Id |-> i, Category__c |-> c]
ItemLists(n) ==
  UNION { { [i \in 1..m |-> Item(i, f[i])] : f \in [1..m -> Categories] } :
          m \in 0..n }
\* What the item wire delivers: an error, nothing yet, or the list.
Fetched(kind, data) == [kind |-> kind, data |-> data]
FetchResults(n) ==
  {Fetched("error", <<>>), Fetched("none", <<>>)}
    \cup {Fetched("data", l) : l \in ItemLists(n)}
\* The deliveries tried while the component goes through its life, and those
\* tried on a component that does nothing else.
FetchedInLife == {Fetched("error", <<>>), Fetched("data", <<Item(1, "A")>>)}
FetchedAlone == FetchResults(MaxItems)

\* sessionEnd payload subtypes (content.sessionEndType); Null: none given.
SessionEndTypes == {"finishLater", "completed", "other", Null}
\* The subtypes tried on the SDK channel, whose handler does not read them.
SdkSessionEndTypes == {"completed", Null}

\* data.sender of a window message; Null: none given.
AllowedSenders == {"WebFormsPlayer", "@embedded/signing-ui", "@embedded-js/core"}

Message(s, t, u) == [hasData |-> TRUE, sender |-> s, type |-> t, sub |-> u]

\* The window message events tried: from an allowed sender every event type
\* (data.eventType || data.type; Null: none given) and every sessionEnd
\* subtype; from an unknown sender and from no sender, events that would be
\* acted on; and an event without data.
Messages ==
  { [hasData |-> FALSE, sender |-> Null, type |-> Null, sub |-> Null] }
  \cup { Message("WebFormsPlayer", t, Null) :
           t \in {"ready", "submitted", "resize", Null} }
  \cup { Message("WebFormsPlayer", "sessionEnd", u) : u \in SessionEndTypes }
  \cup { Message("other-frame", "submitted", Null),
         Message("other-frame", "sessionEnd", "completed"),
         Message(Null, "submitted", Null),
         Message(Null, "sessionEnd", Null) }

\* What the vendor SDK can do while initializeWebform runs.
InitOutcomes == {"ok", "webformsThrows", "onThrows", "mountThrows"}

VARIABLES
  component,              \* which component this instance is
  connected,              \* inserted in the document and not yet removed
  connectPc,              \* where connectedCallback stands
  \* fields of the component
  showSelector, isLoading, errorMessage,
  docusignSDK, docusignLoaded, webformsInstance,
  hasRendered, messageHandler,
  instanceToken, instanceId, currentFormId, webformInstanceRecordId,
  pendingFormUrl, pendingInstanceToken,
  _didEnd, _didSubmit, _didReady,
  \* the item list as the template iterates it (not in WebformRelaunch)
  groupedConditions,
  \* the field docusignWebformIframe has and the others do not
  selectedUrl,
  \* fields of WebformRelaunch that the launcher does not have
  status, formUrl, ds, sdkLoaded, pendingResume, sdkLoadTimeoutId,
  \* the environment
  timerArmed,             \* the load timer is set and has neither fired nor
                          \* been cleared
  resumes,                \* resume() calls awaiting refreshInstanceToken
  resumesStarted,         \* refreshInstanceToken calls made so far
  launches,               \* launch k -> where its handler stands
  widgets,                \* every widget the SDK factory has returned
  listeners,              \* window 'message' listeners now registered
  pendingUpdates,         \* updateWebformInstanceStatus calls not yet settled
  \* history
  observed,               \* whether the event history below is recorded
  sentCount,              \* status -> backend updates in this session:
                          \* "never", "once" or "repeated"
  handledTypes,           \* event types handled in this session
  lastEvent,              \* the event the last step delivered, if any
  lastCalls,              \* the updateStatus calls of the last step
  lastSent,               \* those of them that reached the backend
  backTrace,              \* what handleBackToSelector did, in order, if the last
                          \* step was one
  lastOkLaunch,           \* the launch that last completed successfully
  lastFailure,            \* the launch the last step failed and its error, if
                          \* the last step was the catch block of a launch
  lastQuery,              \* whether the last step looked for the container in
                          \* renderedCallback, and whether it found it
  lastRefresh,            \* what refreshInstanceToken resolved with, if the last
                          \* step was the rest of a resume()
  loadTimedOut,           \* the load timer has fired before the SDK was loaded
  lastFetch               \* what the item wire delivered, if the last step was
                          \* wiredConditions

fields ==
  <<showSelector, isLoading, errorMessage, docusignSDK, docusignLoaded,
    webformsInstance, hasRendered, messageHandler, instanceToken, instanceId,
    currentFormId, webformInstanceRecordId, pendingFormUrl,
    pendingInstanceToken, _didEnd, _didSubmit, _didReady>>
relaunchFields ==
  <<status, formUrl, ds, sdkLoaded, pendingResume, sdkLoadTimeoutId>>
relaunchEnvironment == <<timerArmed, resumes, resumesStarted, loadTimedOut>>
relaunchOnly == <<relaunchFields, relaunchEnvironment>>
environment == <<launches, widgets, listeners, pendingUpdates>>
history ==
  <<observed, sentCount, handledTypes, lastEvent, lastCalls, lastSent, backTrace,
    lastOkLaunch, lastFailure, lastQuery, lastRefresh, lastFetch>>
vars ==
  <<component, connected, connectPc, fields, groupedConditions, selectedUrl,
    relaunchOnly, environment, history>>

NoEvent == [chan |-> "none", sender |-> Null, type |-> Null, sub |-> Null,
            handled |-> FALSE, prior |-> {}]
NoneSent == [s \in Statuses |-> "never"]
NoError == [bodyMessage |-> Null, message |-> "none"]
NoFailure == [launch |-> 0, error |-> NoError]

\* The event history is recorded in the behaviours of SpecEvents only.
Observe(x, blank) == IF observed THEN x ELSE blank
\* The history of the relaunch component's loads and refreshes is recorded in
\* the other behaviours.
Keep(x, blank) == IF observed THEN blank ELSE x

\* No event is delivered in this step.
QuietEvents == lastEvent' = NoEvent /\ lastCalls' = <<>> /\ lastSent' = <<>>
\* Nor does it look for the container.
NoQuery == lastQuery' = "none"
\* Nor the rest of a resume().
NotRefreshed == [instanceToken |-> "none", formUrl |-> Null, instanceId |-> Null]
NoRefresh == lastRefresh' = NotRefreshed
\* Nor a delivery of the item wire.
NotFetched == [kind |-> "none", data |-> <<>>]
NoFetch == lastFetch' = NotFetched
Quiet ==
  QuietEvents /\ lastFailure' = NoFailure /\ NoQuery /\ NoRefresh /\ NoFetch
NoBack == backTrace' = <<>>


\* ------------------------------------------------------------------ Init
\* The field initialisers of the class (betterWebform.js 10-38,
\* webformRelaunch.js 17-41), and connectedCallback run up to its first await
\* (in WebformRelaunch it has started the load timer, lines 57-64).
Constructed(record, n) ==
  /\ component \in Components
  /\ connected = TRUE
  /\ connectPc = "loadScript"
  /\ showSelector = TRUE
  /\ isLoading = (component = "WebformRelaunch")
  /\ errorMessage = Null
  /\ status = Null
  /\ formUrl = Null
  /\ ds = Null
  /\ sdkLoaded = FALSE
  /\ pendingResume = FALSE
  /\ sdkLoadTimeoutId = IF component = "WebformRelaunch" THEN "timer" ELSE Null
  /\ timerArmed = (component = "WebformRelaunch")
  /\ resumes = 0
  /\ resumesStarted = 0
  /\ docusignSDK = Null
  /\ docusignLoaded = FALSE
  /\ webformsInstance = NoWidget
  /\ hasRendered = FALSE
  /\ messageHandler = Null
  /\ instanceToken = Null
  /\ instanceId = Null
  /\ currentFormId = Null
  /\ webformInstanceRecordId = Null
  /\ pendingFormUrl = Null
  /\ pendingInstanceToken = Null
  /\ _didEnd = FALSE
  /\ _didSubmit = FALSE
  /\ _didReady = FALSE
  /\ observed = record
  /\ launches = [k \in 1..n |-> "idle"]
  /\ widgets = <<>>
  /\ listeners = 0
  /\ pendingUpdates = 0
  /\ sentCount = NoneSent
  /\ handledTypes = {}
  /\ lastEvent = NoEvent
  /\ lastCalls = <<>>
  /\ lastSent = <<>>
  /\ backTrace = <<>>
  /\ lastOkLaunch = 0
  /\ lastFailure = NoFailure
  /\ lastQuery = "none"
  /\ lastRefresh = NotRefreshed
  /\ lastFetch = NotFetched
  /\ groupedConditions = <<>>
  /\ loadTimedOut = FALSE
  /\ selectedUrl = Null

\* The state after construction, without and with the event history.
Init == Constructed(FALSE, MaxLaunches)
InitEvents == Constructed(TRUE, MaxObservedLaunches)
\* The same as Init with fewer launches, for the behaviours in which the item
\* wire delivers as well.
InitFetch == Constructed(FALSE, MaxFetchLaunches)
\* And for those in which launches are started from the selection.
InitSelect == Constructed(FALSE, MaxSelectLaunches)

IsLauncher == component = "BetterWebform"

\* ------------------------------------------------- the rendered template
\* The template is not among the sources. The view has two mutually exclusive
\* states: the selection list (its items carry the click handler) and the
\* embedded session (the container and the back control).
SelectorRendered == showSelector
SessionRendered == ~showSelector
\* template.querySelector('[data-id="webform-container"]'): the container can
\* only be found in the session view.
ContainerQuery == IF showSelector THEN {FALSE} ELSE {TRUE, FALSE}

\* ------------------------------------------------------ connectedCallback
\* await loadScript(...) resolves.
LoadScriptResolves ==
  /\ IsLauncher
  /\ connected
  /\ connectPc = "loadScript"
  /\ connectPc' = "loadDocuSign"
  /\ Quiet
  /\ NoBack
  /\ UNCHANGED <<component, groupedConditions, observed, selectedUrl, relaunchOnly, connected, fields, environment, sentCount,
                 handledTypes, lastOkLaunch>>

\* await window.DocuSign.loadDocuSign(...) resolves with a usable SDK object or
\* with something that has no webforms function.
LoadDocuSignResolves(sdk) ==
  /\ IsLauncher
  /\ connected
  /\ connectPc = "loadDocuSign"
  /\ connectPc' = "done"
  /\ docusignSDK' = sdk
  /\ docusignLoaded' = TRUE
  /\ Quiet
  /\ NoBack
  /\ UNCHANGED <<component, groupedConditions, observed, selectedUrl, relaunchOnly, connected, showSelector, isLoading, errorMessage,
                 webformsInstance, hasRendered, messageHandler, instanceToken,
                 instanceId, currentFormId, webformInstanceRecordId,
                 pendingFormUrl, pendingInstanceToken, _didEnd, _didSubmit,
                 _didReady, environment, sentCount, handledTypes,
                 lastOkLaunch>>

\* 'Failed to load DocuSign library: ' + (error?.message || error)
LoadErrText(e) ==
  "Failed to load DocuSign library: "
    \o (IF e.message # Null THEN e.message ELSE "[object Object]")

\* Either await rejects.
LoadRejects(e) ==
  /\ IsLauncher
  /\ connected
  /\ connectPc \in {"loadScript", "loadDocuSign"}
  /\ connectPc' = "failed"
  /\ errorMessage' = LoadErrText(e)
  /\ Quiet
  /\ NoBack
  /\ UNCHANGED <<component, groupedConditions, observed, selectedUrl, relaunchOnly, connected, showSelector, isLoading, docusignSDK,
                 docusignLoaded, webformsInstance, hasRendered, messageHandler,
                 instanceToken, instanceId, currentFormId,
                 webformInstanceRecordId, pendingFormUrl, pendingInstanceToken,
                 _didEnd, _didSubmit, _didReady, environment, sentCount,
                 handledTypes, lastOkLaunch>>

\* -------------------------------------------------------- wiredConditions
\* condition.Category__c || 'Other'
CategoryOrOther(c) == IF c = Null THEN "Other" ELSE c
\* acc[condition.Category__c]: a property key is the value converted to a
\* string, and Object.keys returns the keys as strings.
PropertyKey(c) == IF c = Null THEN "undefined" ELSE c

\* if (!acc[key]) acc[key] = []; acc[key].push(condition), on the object's
\* entries in insertion order (the order of Object.keys).
Push(acc, key, condition) ==
  IF \E j \in DOMAIN acc : acc[j].category = key
  THEN [j \in DOMAIN acc |->
          IF acc[j].category = key
          THEN [acc[j] EXCEPT !.conditions = Append(@, condition)]
          ELSE acc[j]]
  ELSE Append(acc, [category |-> key, conditions |-> <<condition>>])

\* data.reduce(...) followed by Object.keys(grouped).map(...): the groups of
\* BetterWebform (keyed by CategoryOrOther).
RECURSIVE Grouped(_)
Grouped(data) ==
  IF data = <<>> THEN <<>>
  ELSE LET condition == data[Len(data)] IN
       Push(Grouped(SubSeq(data, 1, Len(data) - 1)),
            CategoryOrOther(condition.Category__c), condition)

\* The same in docusignWebformIframe (keyed by the category itself).
RECURSIVE IframeGrouped(_)
IframeGrouped(data) ==
  IF data = <<>> THEN <<>>
  ELSE LET condition == data[Len(data)] IN
       Push(IframeGrouped(SubSeq(data, 1, Len(data) - 1)),
            PropertyKey(condition.Category__c), condition)

WiredConditionsClearsList(result) ==
  /\ IsLauncher
  /\ connected
  /\ CASE result.kind = "data" ->
            /\ groupedConditions' = Grouped(result.data)
            /\ UNCHANGED errorMessage
       [] result.kind = "error" ->
            /\ errorMessage' = "Failed to load conditions"
            /\ groupedConditions' = <<>>
       [] OTHER -> UNCHANGED <<groupedConditions, errorMessage>>
  /\ lastFetch' = result
  /\ QuietEvents
  /\ lastFailure' = NoFailure
  /\ NoQuery
  /\ NoRefresh
  /\ NoBack
  /\ UNCHANGED <<component, observed, selectedUrl, relaunchOnly, connected,
                 connectPc, showSelector, isLoading, docusignSDK,
                 docusignLoaded, webformsInstance, hasRendered, messageHandler,
                 instanceToken, instanceId, currentFormId,
                 webformInstanceRecordId, pendingFormUrl, pendingInstanceToken,
                 _didEnd, _didSubmit, _didReady, environment, sentCount,
                 handledTypes, lastOkLaunch>>

\* wiredConditions({data, error}) of BetterWebform, lines 81-98.
wiredConditions(result) ==
  /\ IsLauncher
  /\ connected
  /\ CASE result.kind = "data" ->
            /\ groupedConditions' = Grouped(result.data)
            /\ UNCHANGED errorMessage
       [] result.kind = "error" ->
            /\ errorMessage' = "Failed to load conditions"
            /\ UNCHANGED groupedConditions
       [] OTHER -> UNCHANGED <<groupedConditions, errorMessage>>
  /\ lastFetch' = result
  /\ QuietEvents
  /\ lastFailure' = NoFailure
  /\ NoQuery
  /\ NoRefresh
  /\ NoBack
  /\ UNCHANGED <<component, observed, selectedUrl, relaunchOnly, connected,
                 connectPc, showSelector, isLoading, docusignSDK,
                 docusignLoaded, webformsInstance, hasRendered, messageHandler,
                 instanceToken, instanceId, currentFormId,
                 webformInstanceRecordId, pendingFormUrl, pendingInstanceToken,
                 _didEnd, _didSubmit, _didReady, environment, sentCount,
                 handledTypes, lastOkLaunch>>

\* --------------------------------------------------- handleConditionClick
NextLaunch ==
  IF \E k \in DOMAIN launches : launches[k] = "idle"
  THEN CHOOSE k \in DOMAIN launches :
         launches[k] = "idle" /\ \A j \in 1..(k - 1) : launches[j] # "idle"
  ELSE 0

\* The synchronous part, up to the first await (lines 100-122).
handleConditionClick(formId, dbqWebformId) ==
  /\ IsLauncher
  /\ connected
  /\ SelectorRendered
  /\ Quiet
  /\ NoBack
  /\ IF ~docusignLoaded
     THEN /\ errorMessage' =
               "DocuSign library not loaded yet. Please try again in a moment."
          /\ UNCHANGED <<isLoading, launches>>
     ELSE IF formId = Null \/ dbqWebformId = Null
     THEN /\ errorMessage' = "Missing form information"
          /\ isLoading' = FALSE
          /\ UNCHANGED launches
     ELSE /\ NextLaunch # 0
          /\ isLoading' = TRUE
          /\ errorMessage' = Null
          /\ launches' = [launches EXCEPT ![NextLaunch] = "createWebformInstance"]
  /\ UNCHANGED <<component, groupedConditions, observed, selectedUrl, relaunchOnly, connected, connectPc, showSelector, docusignSDK,
                 docusignLoaded, webformsInstance, hasRendered, messageHandler,
                 instanceToken, instanceId, currentFormId,
                 webformInstanceRecordId, pendingFormUrl, pendingInstanceToken,
                 _didEnd, _didSubmit, _didReady, widgets, listeners,
                 pendingUpdates, sentCount, handledTypes,
                 lastOkLaunch>>

\* ------------------------------------------- handleStartSelectedCondition
\* The launcher with a selection step (class BetterWebform of
\* docusignWebformIframe.js, lines 119-557) starts a launch from a button
\* instead of the clicked item. What it starts is this.selectedCondition, the
\* item handleConditionSelect (lines 244-259) last looked up, or null after
\* handleClearSelection (261-264); an item that was looked up has an Id.
Selections ==
  {[selected |-> FALSE, formId |-> Null, id |-> Null]}
    \cup {[selected |-> TRUE, formId |-> f, id |-> "c1"] : f \in FormIds}

\* handleStartSelectedCondition up to its first await, lines 287-314. From
\* there on it is the code of handleConditionClick.
handleStartSelectedCondition(selectedCondition) ==
  /\ IsLauncher
  /\ connected
  /\ SelectorRendered
  /\ Quiet
  /\ NoBack
  /\ IF ~selectedCondition.selected
     THEN /\ errorMessage' = "Select a condition to launch its webform."
          /\ UNCHANGED <<isLoading, launches>>
     ELSE IF ~docusignLoaded
     THEN /\ errorMessage' =
               "DocuSign library not loaded yet. Please try again in a moment."
          /\ UNCHANGED <<isLoading, launches>>
     ELSE IF selectedCondition.formId = Null \/ selectedCondition.id = Null
     THEN /\ errorMessage' = "Missing form information"
          /\ isLoading' = FALSE
          /\ UNCHANGED launches
     ELSE /\ NextLaunch # 0
          /\ isLoading' = TRUE
          /\ errorMessage' = Null
          /\ launches' = [launches EXCEPT ![NextLaunch] = "createWebformInstance"]
  /\ UNCHANGED <<component, groupedConditions, observed, selectedUrl, relaunchOnly, connected, connectPc, showSelector, docusignSDK,
                 docusignLoaded, webformsInstance, hasRendered, messageHandler,
                 instanceToken, instanceId, currentFormId,
                 webformInstanceRecordId, pendingFormUrl, pendingInstanceToken,
                 _didEnd, _didSubmit, _didReady, widgets, listeners,
                 pendingUpdates, sentCount, handledTypes,
                 lastOkLaunch>>

\* A variant that stores the pending mount and flips the view as soon as the
\* session exists, without waiting for the tracking record.
CreateInstanceResolvesFlipsView(k) ==
  /\ IsLauncher
  /\ connected
  /\ launches[k] = "createWebformInstance"
  /\ instanceToken' = TokenOf(k)
  /\ instanceId' = InstanceIdOf(k)
  /\ currentFormId' = "f1"
  /\ pendingFormUrl' = FormUrlOf(k)
  /\ pendingInstanceToken' = TokenOf(k)
  /\ showSelector' = FALSE
  /\ launches' = [launches EXCEPT ![k] = "createWebformInstanceRecord"]
  /\ Quiet
  /\ NoBack
  /\ UNCHANGED <<component, groupedConditions, observed, selectedUrl, relaunchOnly, connected,
                 connectPc, isLoading, errorMessage, docusignSDK,
                 docusignLoaded, webformsInstance, hasRendered, messageHandler,
                 webformInstanceRecordId, _didEnd, _didSubmit, _didReady,
                 widgets, listeners, pendingUpdates, sentCount, handledTypes,
                 lastOkLaunch>>

\* createWebformInstance resolves for launch k (lines 122-135): the result is
\* stored and createWebformInstanceRecord is called.
CreateInstanceResolves(k) ==
  /\ IsLauncher
  /\ connected
  /\ launches[k] = "createWebformInstance"
  /\ instanceToken' = TokenOf(k)
  /\ instanceId' = InstanceIdOf(k)
  /\ currentFormId' = "f1"
  /\ launches' = [launches EXCEPT ![k] = "createWebformInstanceRecord"]
  /\ Quiet
  /\ NoBack
  /\ UNCHANGED <<component, groupedConditions, observed, selectedUrl, relaunchOnly, connected, connectPc, showSelector, isLoading,
                 errorMessage, docusignSDK, docusignLoaded, webformsInstance,
                 hasRendered, messageHandler, webformInstanceRecordId,
                 pendingFormUrl, pendingInstanceToken, _didEnd, _didSubmit,
                 _didReady, widgets, listeners, pendingUpdates, sentCount,
                 handledTypes, lastOkLaunch>>

\* The catch block (lines 152-156), entered from either await of launch k.
LaunchRejects(k, e) ==
  /\ IsLauncher
  /\ connected
  /\ launches[k] \in {"createWebformInstance", "createWebformInstanceRecord"}
  /\ errorMessage' = ErrText(e, "Unexpected error")
  /\ isLoading' = FALSE
  /\ launches' = [launches EXCEPT ![k] = "settled"]
  /\ lastFailure' = [launch |-> k, error |-> e]
  /\ QuietEvents
  /\ NoQuery
  /\ NoRefresh
  /\ NoFetch
  /\ NoBack
  /\ UNCHANGED <<component, groupedConditions, observed, selectedUrl, relaunchOnly, connected, connectPc, showSelector, docusignSDK,
                 docusignLoaded, webformsInstance, hasRendered, messageHandler,
                 instanceToken, instanceId, currentFormId,
                 webformInstanceRecordId, pendingFormUrl, pendingInstanceToken,
                 _didEnd, _didSubmit, _didReady, widgets, listeners,
                 pendingUpdates, sentCount, handledTypes,
                 lastOkLaunch>>

\* createWebformInstanceRecord resolves for launch k (lines 136-151): the
\* record id and the pending mount are stored, the view flips, the guards are
\* reset. A new session starts here.
CreateRecordResolves(k) ==
  /\ IsLauncher
  /\ connected
  /\ launches[k] = "createWebformInstanceRecord"
  /\ webformInstanceRecordId' = RecordIdOf(k)
  /\ pendingFormUrl' = FormUrlOf(k)
  /\ pendingInstanceToken' = TokenOf(k)
  /\ showSelector' = FALSE
  /\ isLoading' = FALSE
  /\ _didEnd' = FALSE
  /\ _didSubmit' = FALSE
  /\ _didReady' = FALSE
  /\ launches' = [launches EXCEPT ![k] = "settled"]
  /\ sentCount' = NoneSent
  /\ handledTypes' = {}
  /\ lastOkLaunch' = k
  /\ Quiet
  /\ NoBack
  /\ UNCHANGED <<component, groupedConditions, observed, selectedUrl, relaunchOnly, connected, connectPc, errorMessage, docusignSDK,
                 docusignLoaded, webformsInstance, hasRendered, messageHandler,
                 instanceToken, instanceId, currentFormId, widgets, listeners,
                 pendingUpdates>>


\* ------------------------------------------------------ initializeWebform
\* A variant that appends the token to the URL by hand and passes no
\* options.instanceToken.
WidgetHandBuiltUrl(url, token, handlers, mounted) ==
  [url |-> url \o "#instanceToken=" \o token, instanceToken |-> Null,
   handlers |-> handlers, mounted |-> mounted, destroyed |-> FALSE,
   launch |-> lastOkLaunch]

\* The object docusignSDK.webforms({url, options}) returns, with what has been
\* done to it. `launch` remembers the launch that had last succeeded when it
\* was constructed.
Widget(url, token, handlers, mounted) ==
  [url |-> url, instanceToken |-> token, handlers |-> handlers,
   mounted |-> mounted, destroyed |-> FALSE, launch |-> lastOkLaunch]

\* The catch block of initializeWebform (lines 287-291).
InitializeFailed(message) ==
  /\ errorMessage' = "Failed to initialize webform: " \o message
  /\ showSelector' = TRUE

\* initializeWebform(container, formUrl, instanceToken), lines 184-292. The SDK
\* calls (webforms, on, mount) return or throw as `outcome` says.
initializeWebform(url, token, outcome) ==
  IF docusignSDK = Null
  THEN /\ InitializeFailed("DocuSign SDK not properly initialized")
       /\ UNCHANGED <<webformsInstance, widgets, messageHandler, listeners>>
  ELSE CASE outcome = "webformsThrows" ->
              /\ InitializeFailed("sdk error")
              /\ UNCHANGED <<webformsInstance, widgets, messageHandler,
                             listeners>>
         [] outcome = "onThrows" ->
              /\ widgets' = Append(widgets, Widget(url, token, FALSE, FALSE))
              /\ webformsInstance' = Len(widgets) + 1
              /\ InitializeFailed("sdk error")
              /\ UNCHANGED <<messageHandler, listeners>>
         [] outcome = "mountThrows" ->
              /\ widgets' = Append(widgets, Widget(url, token, TRUE, FALSE))
              /\ webformsInstance' = Len(widgets) + 1
              /\ messageHandler' = "messageHandler"
              /\ listeners' = listeners + 1
              /\ InitializeFailed("sdk error")
         [] outcome = "ok" ->
              /\ widgets' = Append(widgets, Widget(url, token, TRUE, TRUE))
              /\ webformsInstance' = Len(widgets) + 1
              /\ messageHandler' = "messageHandler"
              /\ listeners' = listeners + 1
              /\ UNCHANGED <<errorMessage, showSelector>>

\* ------------------------------------------------------- renderedCallback
\* Lines 68-79. The framework calls it after every render of a connected
\* component.
renderedCallback(container, outcome) ==
  /\ IsLauncher
  /\ connected
  /\ QuietEvents
  /\ lastFailure' = NoFailure
  /\ NoBack
  /\ IF pendingFormUrl # Null /\ pendingInstanceToken # Null
          /\ ~hasRendered /\ ~showSelector
     THEN /\ hasRendered' = TRUE
          /\ container \in ContainerQuery
          /\ lastQuery' = IF container THEN "found" ELSE "missing"
          /\ NoRefresh
          /\ NoFetch
          /\ IF container
             THEN initializeWebform(pendingFormUrl, pendingInstanceToken, outcome)
             ELSE UNCHANGED <<webformsInstance, widgets, messageHandler,
                              listeners, errorMessage, showSelector>>
     ELSE /\ NoQuery
          /\ NoRefresh
          /\ NoFetch
          /\ UNCHANGED <<hasRendered, webformsInstance, widgets, messageHandler,
                         listeners, errorMessage, showSelector>>
  /\ UNCHANGED <<component, groupedConditions, observed, selectedUrl, relaunchOnly, connected, connectPc, isLoading, docusignSDK,
                 docusignLoaded, instanceToken, instanceId, currentFormId,
                 webformInstanceRecordId, pendingFormUrl, pendingInstanceToken,
                 _didEnd, _didSubmit, _didReady, launches, pendingUpdates,
                 sentCount, handledTypes, lastOkLaunch>>

\* --------------------------------------------------------------- teardown
\* window.removeEventListener('message', this.messageHandler)
RemoveListener(n) == IF n > 0 THEN n - 1 ELSE 0

\* A variant that never calls destroy().
DestroySkipped(ws, w) == ws

\* this.webformsInstance.destroy(), whether it returns or throws. Of a destroyed
\* widget only this is remembered: that it is destroyed, and whether observers
\* had been registered on it while it was mounted.
Destroy(ws, w) ==
  [ws EXCEPT ![w] = [url |-> Null, instanceToken |-> Null,
                     handlers |-> ws[w].handlers /\ ws[w].mounted,
                     mounted |-> ws[w].handlers /\ ws[w].mounted,
                     destroyed |-> TRUE, launch |-> 0]]

\* A variant that runs the teardown after the fields were reset: it finds
\* neither a handler to remove nor a widget to destroy.
TeardownAfterReset ==
  /\ listeners' = listeners
  /\ messageHandler' = Null
  /\ widgets' = widgets

\* The two teardown statements shared by handleBackToSelector (lines 161-167)
\* and disconnectedCallback (lines 59-65).
Teardown ==
  /\ listeners' = IF messageHandler # Null THEN RemoveListener(listeners)
                  ELSE listeners
  /\ messageHandler' = Null
  /\ widgets' = IF webformsInstance # NoWidget
                THEN Destroy(widgets, webformsInstance) ELSE widgets

TeardownTrace ==
  (IF messageHandler # Null THEN <<"removeEventListener">> ELSE <<>>)
    \o (IF webformsInstance # NoWidget THEN <<"destroy">> ELSE <<>>)

\* handleBackToSelector, lines 159-181: teardown, then the state reset.
handleBackToSelector ==
  /\ IsLauncher
  /\ connected
  /\ SessionRendered
  /\ Teardown
  /\ showSelector' = TRUE
  /\ instanceToken' = Null
  /\ instanceId' = Null
  /\ currentFormId' = Null
  /\ webformInstanceRecordId' = Null
  /\ webformsInstance' = NoWidget
  /\ pendingFormUrl' = Null
  /\ pendingInstanceToken' = Null
  /\ hasRendered' = FALSE
  /\ _didEnd' = FALSE
  /\ _didSubmit' = FALSE
  /\ _didReady' = FALSE
  /\ backTrace' = TeardownTrace \o <<"reset">>
  /\ sentCount' = NoneSent
  /\ handledTypes' = {}
  /\ Quiet
  /\ UNCHANGED <<component, groupedConditions, observed, selectedUrl, relaunchOnly, connected, connectPc, isLoading, errorMessage,
                 docusignSDK, docusignLoaded, launches, pendingUpdates,
                 lastOkLaunch>>

\* disconnectedCallback, lines 58-66.
disconnectedCallback ==
  /\ IsLauncher
  /\ connected
  /\ connected' = FALSE
  /\ Teardown
  /\ Quiet
  /\ NoBack
  /\ UNCHANGED <<component, groupedConditions, observed, selectedUrl, relaunchOnly, connectPc, showSelector, isLoading, errorMessage,
                 docusignSDK, docusignLoaded, webformsInstance, hasRendered,
                 instanceToken, instanceId, currentFormId,
                 webformInstanceRecordId, pendingFormUrl, pendingInstanceToken,
                 _didEnd, _didSubmit, _didReady, launches, pendingUpdates,
                 sentCount, handledTypes, lastOkLaunch>>


\* --------------------------------------------------------- event handlers
\* The handlers are closures over `this`: they read and write the guard
\* fields and call updateStatus. g carries the guards and the calls made.
Guards == [didEnd |-> _didEnd, didSubmit |-> _didSubmit, didReady |-> _didReady,
           calls |-> <<>>]

CallUpdateStatus(g, st) == [g EXCEPT !.calls = Append(@, st)]

\* markInProgressOnce, lines 213-217.
markInProgressOnce(g) ==
  IF g.didEnd \/ g.didSubmit THEN g
  ELSE CallUpdateStatus([g EXCEPT !.didEnd = TRUE], "In Progress")

\* The callback given to webformsInstance.on(eventType, ...), lines 222-244.
\* The event payload is not read.
SdkHandler(g, eventType) ==
  CASE eventType = "ready" ->
         IF ~g.didReady
         THEN CallUpdateStatus([g EXCEPT !.didReady = TRUE], "Ready")
         ELSE g
    [] eventType = "submitted" ->
         IF g.didSubmit THEN g
         ELSE CallUpdateStatus([g EXCEPT !.didSubmit = TRUE], "Submitted")
    [] eventType = "sessionEnd" -> markInProgressOnce(g)
    [] OTHER -> g

\* The two filters at the head of messageHandler, lines 249-257.
MessageAccepted(data) ==
  /\ data.hasData
  /\ ~(data.sender # Null /\ data.sender \notin AllowedSenders)
  /\ data.type # Null
  /\ data.type \in EventTypes

\* A variant without the final else branch: a sessionEnd of unknown subtype
\* is ignored.
MessageHandlerKnownOnly(g, data) ==
  IF ~MessageAccepted(data) THEN g
  ELSE CASE data.type = "submitted" ->
              IF ~g.didSubmit
              THEN CallUpdateStatus([g EXCEPT !.didSubmit = TRUE], "Submitted")
              ELSE g
         [] data.type = "sessionEnd" ->
              IF data.sub \in {"finishLater", "finish_later"}
              THEN markInProgressOnce(g)
              ELSE IF data.sub = "completed"
              THEN CallUpdateStatus(g, "Submitted")
              ELSE g
         [] data.type = "ready" ->
              IF ~g.didReady
              THEN CallUpdateStatus([g EXCEPT !.didReady = TRUE], "Ready")
              ELSE g

\* messageHandler, lines 248-280.
MessageHandler(g, data) ==
  IF ~MessageAccepted(data) THEN g
  ELSE CASE data.type = "submitted" ->
              IF ~g.didSubmit
              THEN CallUpdateStatus([g EXCEPT !.didSubmit = TRUE], "Submitted")
              ELSE g
         [] data.type = "sessionEnd" ->
              IF data.sub \in {"finishLater", "finish_later"}
              THEN markInProgressOnce(g)
              ELSE IF data.sub = "completed"
              THEN CallUpdateStatus(g, "Submitted")
              ELSE markInProgressOnce(g)
         [] data.type = "ready" ->
              IF ~g.didReady
              THEN CallUpdateStatus([g EXCEPT !.didReady = TRUE], "Ready")
              ELSE g

\* A window message reaches every registered listener in turn.
RECURSIVE Dispatch(_, _, _)
Dispatch(g, data, n) ==
  IF n = 0 THEN g ELSE Dispatch(MessageHandler(g, data), data, n - 1)

\* A variant without the early return: every call is passed on.
UpdateStatusUnguarded(calls) == calls

\* updateStatus up to its await, lines 294-306: the calls that reach
\* updateWebformInstanceStatus.
updateStatus(calls) ==
  IF webformInstanceRecordId = Null THEN <<>> ELSE calls

Occurrences(seq, x) == Cardinality({i \in DOMAIN seq : seq[i] = x})
\* The send count after n more sends.
Counted(c, n) ==
  IF n = 0 THEN c
  ELSE IF c = "never" /\ n = 1 THEN "once"
  ELSE "repeated"

\* The effects of one delivered event whose handlers left the guards as g.
Delivered(g, ev, handled) ==
  /\ _didEnd' = g.didEnd
  /\ _didSubmit' = g.didSubmit
  /\ _didReady' = g.didReady
  /\ pendingUpdates + Len(updateStatus(g.calls)) <= MaxPending
  /\ pendingUpdates' = pendingUpdates + Len(updateStatus(g.calls))
  /\ lastCalls' = Observe(g.calls, <<>>)
  /\ lastSent' = Observe(updateStatus(g.calls), <<>>)
  /\ sentCount' = [s \in Statuses |->
                     Counted(sentCount[s], Occurrences(lastSent', s))]
  /\ handledTypes' = IF observed /\ handled THEN handledTypes \cup {ev.type}
                     ELSE handledTypes
  /\ lastEvent' = Observe([ev EXCEPT !.prior = handledTypes], NoEvent)
  /\ lastFailure' = NoFailure
  /\ NoQuery
  /\ NoRefresh
  /\ NoFetch
  /\ NoBack
  /\ UNCHANGED <<component, groupedConditions, observed, selectedUrl, relaunchOnly, connected, connectPc, showSelector, isLoading,
                 errorMessage, docusignSDK, docusignLoaded, webformsInstance,
                 hasRendered, messageHandler, instanceToken, instanceId,
                 currentFormId, webformInstanceRecordId, pendingFormUrl,
                 pendingInstanceToken, launches, widgets, listeners, lastOkLaunch>>

\* A widget whose observers were registered and that was mounted emits an
\* event. Whether a destroyed widget still delivers one is the SDK's business.
SdkEvent(w, eventType, sub) ==
  /\ IsLauncher
  /\ connected
  /\ w \in DOMAIN widgets
  /\ widgets[w].handlers /\ widgets[w].mounted
  /\ Delivered(SdkHandler(Guards, eventType),
               [chan |-> "sdk", sender |-> Null, type |-> eventType,
                sub |-> sub, handled |-> TRUE, prior |-> {}],
               TRUE)

\* The window receives a message while listeners are registered.
WindowMessage(data) ==
  /\ IsLauncher
  /\ connected
  /\ listeners > 0
  /\ Delivered(Dispatch(Guards, data, listeners),
               [chan |-> "message", sender |-> data.sender, type |-> data.type,
                sub |-> data.sub, handled |-> MessageAccepted(data),
                prior |-> {}],
               MessageAccepted(data))

\* ------------------------------------------- updateStatus after its await
UpdateStatusResolves ==
  /\ IsLauncher
  /\ connected
  /\ pendingUpdates > 0
  /\ pendingUpdates' = pendingUpdates - 1
  /\ Quiet
  /\ NoBack
  /\ UNCHANGED <<component, groupedConditions, observed, selectedUrl, relaunchOnly, connected, connectPc, fields, launches, widgets,
                 listeners, sentCount, handledTypes, lastOkLaunch>>

\* The catch block of updateStatus, lines 308-319.
UpdateStatusRejects(e) ==
  /\ IsLauncher
  /\ connected
  /\ pendingUpdates > 0
  /\ pendingUpdates' = pendingUpdates - 1
  /\ errorMessage' = ErrText(e, "Failed to update status")
  /\ Quiet
  /\ NoBack
  /\ UNCHANGED <<component, groupedConditions, observed, selectedUrl, relaunchOnly, connected, connectPc, showSelector, isLoading,
                 docusignSDK, docusignLoaded, webformsInstance, hasRendered,
                 messageHandler, instanceToken, instanceId, currentFormId,
                 webformInstanceRecordId, pendingFormUrl, pendingInstanceToken,
                 _didEnd, _didSubmit, _didReady, launches, widgets, listeners,
                 sentCount, handledTypes, lastOkLaunch>>

\* ---------------------------------------------------------------------
\* WebformRelaunch (webformRelaunch.js)
\* ---------------------------------------------------------------------
IsRelaunch == component = "WebformRelaunch"

launcherOnly ==
  <<showSelector, docusignSDK, docusignLoaded, hasRendered, messageHandler,
    currentFormId, webformInstanceRecordId, pendingFormUrl,
    pendingInstanceToken, _didReady, launches, listeners, backTrace,
    lastOkLaunch>>

\* What the record wire delivers: an error, nothing yet, or the record's
\* Status__c, Form_URL__c and Instance_ID__c.
Record(st, url, id) ==
  [kind |-> "data", status |-> st, formUrl |-> url, instanceId |-> id]
WireResults ==
  { [kind |-> "error", status |-> Null, formUrl |-> Null, instanceId |-> Null],
    [kind |-> "none", status |-> Null, formUrl |-> Null, instanceId |-> Null],
    Record("In Progress", "https://x/f1", "i1"),
    Record("In Progress", Null, "i1"),
    Record("Submitted", "https://x/f1", "i1") }

\* What refreshInstanceToken resolves with; formUrl and instanceId may be
\* left out.
Refreshed ==
  { [instanceToken |-> "t2", formUrl |-> Null, instanceId |-> Null],
    [instanceToken |-> "t2", formUrl |-> "https://x/f2", instanceId |-> "i2"],
    [instanceToken |-> Null, formUrl |-> Null, instanceId |-> Null] }

OrElseRefreshedOnly(a, b) == a

\* a || b
OrElse(a, b) == IF a # Null THEN a ELSE b

\* The getter canRender, lines 43-47. The template (not among the sources)
\* renders the container under it.
canRender == errorMessage = Null /\ status = "In Progress"

\* A variant of resume() without the deferral: it does not look at sdkLoaded.
ResumeWithoutSdkCheck(loaded, url, id, pending) ==
  IF url = Null \/ id = Null
  THEN [isLoading |-> FALSE,
        errorMessage |-> "Missing form URL or Instance ID on the record",
        pendingResume |-> pending, calls |-> 0]
  ELSE [isLoading |-> TRUE, errorMessage |-> Null, pendingResume |-> pending,
        calls |-> 1]

\* resume() up to its await (lines 117-131), given the fields it reads. It
\* returns early (deferring), throws into its own catch, or calls
\* refreshInstanceToken (calls = 1).
resume(loaded, url, id, pending) ==
  IF ~loaded
  THEN [isLoading |-> TRUE, errorMessage |-> Null, pendingResume |-> TRUE,
        calls |-> 0]
  ELSE IF url = Null \/ id = Null
  THEN [isLoading |-> FALSE,
        errorMessage |-> "Missing form URL or Instance ID on the record",
        pendingResume |-> pending, calls |-> 0]
  ELSE [isLoading |-> TRUE, errorMessage |-> Null, pendingResume |-> pending,
        calls |-> 1]

\* The finally block of connectedCallback, lines 76-81.
ClearLoadTimer ==
  /\ sdkLoadTimeoutId' = Null
  /\ timerArmed' = FALSE

\* await loadScript(...) resolves (line 64).
RelaunchLoadScriptResolves ==
  /\ IsRelaunch
  /\ connectPc = "loadScript"
  /\ connectPc' = "loadDocuSign"
  /\ Quiet
  /\ UNCHANGED <<component, groupedConditions, observed, selectedUrl, connected, fields, relaunchOnly,
                 environment, sentCount, handledTypes, backTrace, lastOkLaunch>>

\* await loadDocuSign(...) resolves (lines 65-72): the SDK is stored and a
\* deferred resume is started; connectedCallback awaits it before its finally.
RelaunchLoadDocuSignResolves(sdk) ==
  /\ IsRelaunch
  /\ connectPc = "loadDocuSign"
  /\ ds' = sdk
  /\ sdkLoaded' = TRUE
  /\ IF pendingResume
     THEN LET r == resume(TRUE, formUrl, instanceId, FALSE) IN
          /\ resumesStarted + r.calls <= MaxResumes
          /\ resumesStarted' = resumesStarted + r.calls
          /\ pendingResume' = r.pendingResume
          /\ isLoading' = r.isLoading
          /\ errorMessage' = r.errorMessage
          /\ IF r.calls = 1
             THEN /\ connectPc' = "resume"
                  /\ UNCHANGED <<sdkLoadTimeoutId, timerArmed>>
             ELSE /\ connectPc' = "done"
                  /\ ClearLoadTimer
     ELSE /\ connectPc' = "done"
          /\ ClearLoadTimer
          /\ UNCHANGED <<resumesStarted, pendingResume, isLoading, errorMessage>>
  /\ Quiet
  /\ UNCHANGED <<component, groupedConditions, observed, selectedUrl, connected, launcherOnly, loadTimedOut, status, formUrl,
                 webformsInstance, instanceToken, instanceId, _didEnd,
                 _didSubmit, resumes, widgets, pendingUpdates, sentCount,
                 handledTypes>>

\* 'Failed to load DocuSign SDK: ' + (e?.message || e)
RelaunchLoadErrText(e) ==
  "Failed to load DocuSign SDK: "
    \o (IF e.message # Null THEN e.message ELSE "[object Object]")

\* Either load rejects: the catch and finally blocks, lines 73-81.
RelaunchLoadRejects(e) ==
  /\ IsRelaunch
  /\ connectPc \in {"loadScript", "loadDocuSign"}
  /\ connectPc' = "failed"
  /\ errorMessage' = RelaunchLoadErrText(e)
  /\ isLoading' = FALSE
  /\ ClearLoadTimer
  /\ Quiet
  /\ UNCHANGED <<component, groupedConditions, observed, selectedUrl, connected, launcherOnly, loadTimedOut, status, formUrl,
                 ds, sdkLoaded, pendingResume, webformsInstance, instanceToken,
                 instanceId, _didEnd, _didSubmit, resumes, resumesStarted,
                 widgets, pendingUpdates, sentCount, handledTypes>>

\* The load timer fires (lines 57-62).
SdkLoadTimeout ==
  /\ IsRelaunch
  /\ timerArmed
  /\ timerArmed' = FALSE
  /\ IF ~sdkLoaded
     THEN /\ errorMessage' = "DocuSign SDK took too long to load."
          /\ isLoading' = FALSE
          /\ loadTimedOut' = Keep(TRUE, FALSE)
     ELSE UNCHANGED <<errorMessage, isLoading, loadTimedOut>>
  /\ Quiet
  /\ UNCHANGED <<component, groupedConditions, observed, selectedUrl, connected, connectPc, launcherOnly,
                 relaunchFields, webformsInstance, instanceToken, instanceId,
                 _didEnd, _didSubmit, resumes, resumesStarted, widgets,
                 pendingUpdates, sentCount, handledTypes>>

\* wiredRecord({data, error}), lines 85-109.
wiredRecord(result) ==
  /\ IsRelaunch
  /\ CASE result.kind = "error" ->
            /\ errorMessage' = "Failed to load Webform Instance record"
            /\ isLoading' = FALSE
            /\ UNCHANGED <<status, formUrl, instanceId, pendingResume,
                           resumes, resumesStarted>>
       [] result.kind = "none" ->
            UNCHANGED <<errorMessage, isLoading, status, formUrl, instanceId,
                        pendingResume, resumes, resumesStarted>>
       [] result.kind = "data" ->
            /\ status' = result.status
            /\ formUrl' = result.formUrl
            /\ instanceId' = result.instanceId
            /\ IF result.status = "In Progress"
               THEN IF sdkLoaded
                    THEN LET r == resume(TRUE, result.formUrl,
                                         result.instanceId, pendingResume) IN
                         /\ resumesStarted + r.calls <= MaxResumes
                         /\ resumesStarted' = resumesStarted + r.calls
                         /\ resumes' = resumes + r.calls
                         /\ pendingResume' = r.pendingResume
                         /\ isLoading' = r.isLoading
                         /\ errorMessage' = r.errorMessage
                    ELSE /\ pendingResume' = TRUE
                         /\ UNCHANGED <<isLoading, errorMessage, resumes,
                                        resumesStarted>>
               ELSE /\ isLoading' = FALSE
                    /\ UNCHANGED <<errorMessage, pendingResume, resumes,
                                   resumesStarted>>
  /\ Quiet
  /\ UNCHANGED <<component, groupedConditions, observed, selectedUrl, connected, connectPc, launcherOnly, loadTimedOut, ds,
                 sdkLoaded, sdkLoadTimeoutId, timerArmed, webformsInstance,
                 instanceToken, _didEnd, _didSubmit, widgets, pendingUpdates,
                 sentCount, handledTypes>>

\* reload(), lines 112-114: resume() up to its await.
reload ==
  /\ IsRelaunch
  /\ LET r == resume(sdkLoaded, formUrl, instanceId, pendingResume) IN
     /\ resumesStarted + r.calls <= MaxResumes
     /\ resumesStarted' = resumesStarted + r.calls
     /\ resumes' = resumes + r.calls
     /\ pendingResume' = r.pendingResume
     /\ isLoading' = r.isLoading
     /\ errorMessage' = r.errorMessage
  /\ Quiet
  /\ UNCHANGED <<component, groupedConditions, observed, selectedUrl, connected, connectPc, launcherOnly, loadTimedOut,
                 status, formUrl, ds, sdkLoaded, sdkLoadTimeoutId, timerArmed,
                 webformsInstance, instanceToken, instanceId, _didEnd,
                 _didSubmit, widgets, pendingUpdates, sentCount, handledTypes>>

\* The catch block of resume, lines 150-153.
ResumeFailed(e) ==
  /\ errorMessage' = ErrText(e, "Unexpected error resuming webform")
  /\ isLoading' = FALSE

Thrown(message) == [bodyMessage |-> Null, message |-> message]

\* A resume() that had been awaiting refreshInstanceToken ends: the one
\* connectedCallback awaits (it then runs its finally block), or another.
ResumeEnds(owner) ==
  IF owner = "connectedCallback"
  THEN /\ connectPc = "resume"
       /\ connectPc' = "done"
       /\ ClearLoadTimer
       /\ UNCHANGED resumes
  ELSE /\ resumes > 0
       /\ resumes' = resumes - 1
       /\ UNCHANGED <<connectPc, sdkLoadTimeoutId, timerArmed>>

ResumeOwners == {"connectedCallback", "other"}

\* mount(container, formUrl, instanceToken), lines 157-195, on the widget list
\* ws: the guards are reset, then the SDK calls return or throw as `outcome`
\* says (a missing SDK object makes the first of them throw).
mount(ws, url, token, outcome) ==
  /\ _didEnd' = FALSE
  /\ _didSubmit' = FALSE
  /\ sentCount' = NoneSent
  /\ handledTypes' = {}
  /\ IF ds = Null \/ outcome = "webformsThrows"
     THEN /\ widgets' = ws
          /\ webformsInstance' = NoWidget
          /\ ResumeFailed(Thrown("sdk error"))
     ELSE /\ widgets' = Append(ws, Widget(url, token, outcome # "onThrows",
                                          outcome = "ok"))
          /\ webformsInstance' = Len(ws) + 1
          /\ IF outcome = "ok"
             THEN /\ isLoading' = FALSE
                  /\ UNCHANGED errorMessage
             ELSE ResumeFailed(Thrown("sdk error"))

\* refreshInstanceToken resolves: the rest of resume(), lines 132-153.
RefreshResolves(owner, refreshed, outcome) ==
  /\ IsRelaunch
  /\ ResumeEnds(owner)
  /\ instanceToken' = refreshed.instanceToken
  /\ formUrl' = OrElse(refreshed.formUrl, formUrl)
  /\ instanceId' = OrElse(refreshed.instanceId, instanceId)
  /\ IF refreshed.instanceToken = Null
     THEN /\ ResumeFailed(Thrown("Failed to obtain a fresh instance token"))
          /\ UNCHANGED <<webformsInstance, widgets, _didEnd, _didSubmit,
                         sentCount, handledTypes>>
     ELSE IF ~canRender
     THEN /\ ResumeFailed(Thrown("Container not found"))
          /\ UNCHANGED <<webformsInstance, widgets, _didEnd, _didSubmit,
                         sentCount, handledTypes>>
     ELSE mount(IF webformsInstance # NoWidget
                THEN Destroy(widgets, webformsInstance) ELSE widgets,
                formUrl', instanceToken', outcome)
  /\ QuietEvents
  /\ lastFailure' = NoFailure
  /\ NoQuery
  /\ lastRefresh' = Keep(refreshed, NotRefreshed)
  /\ NoFetch
  /\ UNCHANGED <<component, groupedConditions, observed, selectedUrl, connected, launcherOnly, loadTimedOut, status, ds,
                 sdkLoaded, pendingResume, resumesStarted, pendingUpdates>>

\* refreshInstanceToken rejects: the catch block of resume().
RefreshRejects(owner, e) ==
  /\ IsRelaunch
  /\ ResumeEnds(owner)
  /\ ResumeFailed(e)
  /\ Quiet
  /\ UNCHANGED <<component, groupedConditions, observed, selectedUrl, connected, launcherOnly, loadTimedOut, status, formUrl,
                 ds, sdkLoaded, pendingResume, resumesStarted, webformsInstance,
                 instanceToken, instanceId, _didEnd, _didSubmit, widgets,
                 pendingUpdates, sentCount, handledTypes>>

\* The callback given to webformsInstance.on(evt, ...), lines 173-191.
RelaunchSdkHandler(g, evt) ==
  CASE evt = "submitted" ->
         IF ~g.didSubmit
         THEN CallUpdateStatus([g EXCEPT !.didSubmit = TRUE], "Submitted")
         ELSE g
    [] evt = "sessionEnd" -> markInProgressOnce(g)
    [] OTHER -> g

\* A widget of the relaunch component emits an event. Its updateStatus (lines
\* 198-200) passes every call on to updateWebformInstanceStatus.
RelaunchSdkEvent(w, evt, sub) ==
  /\ IsRelaunch
  /\ w \in DOMAIN widgets
  /\ widgets[w].handlers /\ widgets[w].mounted
  /\ LET g == RelaunchSdkHandler(Guards, evt) IN
     /\ _didEnd' = g.didEnd
     /\ _didSubmit' = g.didSubmit
     /\ pendingUpdates + Len(g.calls) <= MaxPending
     /\ pendingUpdates' = pendingUpdates + Len(g.calls)
     /\ lastCalls' = Observe(g.calls, <<>>)
     /\ lastSent' = Observe(g.calls, <<>>)
     /\ sentCount' = [s \in Statuses |->
                        Counted(sentCount[s], Occurrences(lastSent', s))]
     /\ handledTypes' = IF observed THEN handledTypes \cup {evt}
                        ELSE handledTypes
     /\ lastEvent' = Observe([chan |-> "sdk", sender |-> Null, type |-> evt,
                              sub |-> sub, handled |-> TRUE,
                              prior |-> handledTypes], NoEvent)
     /\ lastFailure' = NoFailure
     /\ NoQuery
     /\ NoRefresh
     /\ NoFetch
  /\ UNCHANGED <<component, groupedConditions, observed, selectedUrl, connected, connectPc, launcherOnly, loadTimedOut,
                 relaunchOnly, isLoading, errorMessage, webformsInstance,
                 instanceToken, instanceId, widgets>>

RelaunchUpdateStatusResolves ==
  /\ IsRelaunch
  /\ pendingUpdates > 0
  /\ pendingUpdates' = pendingUpdates - 1
  /\ Quiet
  /\ UNCHANGED <<component, groupedConditions, observed, selectedUrl, connected, connectPc, fields,
                 relaunchOnly, launches, widgets, listeners, sentCount,
                 handledTypes, backTrace, lastOkLaunch>>

\* The catch block of updateStatus, lines 201-205.
RelaunchUpdateStatusRejects(e) ==
  /\ IsRelaunch
  /\ pendingUpdates > 0
  /\ pendingUpdates' = pendingUpdates - 1
  /\ errorMessage' = ErrText(e, "Failed to update status")
  /\ Quiet
  /\ UNCHANGED <<component, groupedConditions, observed, selectedUrl, connected, connectPc, launcherOnly, loadTimedOut,
                 relaunchOnly, isLoading, webformsInstance, instanceToken,
                 instanceId, _didEnd, _didSubmit, widgets, sentCount,
                 handledTypes>>

\* ---------------------------------------------------------------------
\* docusignWebformIframe (docusignWebformIframe.js, lines 6-110)
\* ---------------------------------------------------------------------
IsIframe == component = "docusignWebformIframe"

\* What the handlers of docusignWebformIframe never touch.
iframeUnused ==
  <<connected, connectPc, docusignSDK, docusignLoaded, webformsInstance,
    hasRendered, messageHandler, pendingFormUrl, pendingInstanceToken, _didEnd,
    _didSubmit, _didReady, relaunchOnly, widgets, listeners, pendingUpdates,
    observed, sentCount, handledTypes>>

\* error.body ? error.body.message : error.message
IframeErrText(e) == IF e.bodyMessage # Null THEN e.bodyMessage ELSE e.message

\* wiredConditions({data, error}) of docusignWebformIframe, lines 19-41.
IframeWiredConditions(result) ==
  /\ IsIframe
  /\ CASE result.kind = "data" ->
            /\ groupedConditions' = IframeGrouped(result.data)
            /\ UNCHANGED errorMessage
       [] result.kind = "error" ->
            /\ errorMessage' = "Failed to load conditions"
            /\ UNCHANGED groupedConditions
       [] OTHER -> UNCHANGED <<groupedConditions, errorMessage>>
  /\ lastFetch' = result
  /\ QuietEvents
  /\ lastFailure' = NoFailure
  /\ NoQuery
  /\ NoRefresh
  /\ NoBack
  /\ UNCHANGED <<component, iframeUnused, showSelector, isLoading,
                 instanceToken, instanceId, currentFormId,
                 webformInstanceRecordId, selectedUrl, launches, lastOkLaunch>>

\* handleConditionClick up to its first await, lines 43-67.
IframeHandleConditionClick(formId, dbqWebformId) ==
  /\ IsIframe
  /\ SelectorRendered
  /\ IF formId = Null
     THEN /\ errorMessage' = "Form ID not found for this condition"
          /\ isLoading' = FALSE
          /\ UNCHANGED launches
     ELSE IF dbqWebformId = Null
     THEN /\ errorMessage' = "DBQ Webform record ID not found"
          /\ isLoading' = FALSE
          /\ UNCHANGED launches
     ELSE /\ NextLaunch # 0
          /\ isLoading' = TRUE
          /\ errorMessage' = Null
          /\ launches' = [launches EXCEPT ![NextLaunch] = "createWebformInstance"]
  /\ Quiet
  /\ NoBack
  /\ UNCHANGED <<component, groupedConditions, iframeUnused, showSelector, instanceToken,
                 instanceId, currentFormId, webformInstanceRecordId,
                 selectedUrl, lastOkLaunch>>

\* createWebformInstance resolves for launch k, lines 67-85.
IframeCreateInstanceResolves(k) ==
  /\ IsIframe
  /\ launches[k] = "createWebformInstance"
  /\ instanceToken' = TokenOf(k)
  /\ instanceId' = InstanceIdOf(k)
  /\ currentFormId' = "f1"
  /\ selectedUrl' = FormUrlOf(k)
  /\ launches' = [launches EXCEPT ![k] = "createWebformInstanceRecord"]
  /\ Quiet
  /\ NoBack
  /\ UNCHANGED <<component, groupedConditions, iframeUnused, showSelector, isLoading,
                 errorMessage, webformInstanceRecordId, lastOkLaunch>>

\* createWebformInstanceRecord resolves for launch k, lines 85-93 and the
\* finally block.
IframeCreateRecordResolves(k) ==
  /\ IsIframe
  /\ launches[k] = "createWebformInstanceRecord"
  /\ webformInstanceRecordId' = RecordIdOf(k)
  /\ showSelector' = FALSE
  /\ isLoading' = FALSE
  /\ launches' = [launches EXCEPT ![k] = "settled"]
  /\ lastOkLaunch' = k
  /\ Quiet
  /\ NoBack
  /\ UNCHANGED <<component, groupedConditions, iframeUnused, errorMessage, instanceToken,
                 instanceId, currentFormId, selectedUrl>>

\* The catch and finally blocks, lines 94-99, entered from either await.
IframeLaunchRejects(k, e) ==
  /\ IsIframe
  /\ launches[k] \in {"createWebformInstance", "createWebformInstanceRecord"}
  /\ errorMessage' = IframeErrText(e)
  /\ isLoading' = FALSE
  /\ launches' = [launches EXCEPT ![k] = "settled"]
  /\ lastFailure' = [launch |-> k, error |-> e]
  /\ QuietEvents
  /\ NoQuery
  /\ NoRefresh
  /\ NoFetch
  /\ NoBack
  /\ UNCHANGED <<component, groupedConditions, iframeUnused, showSelector, instanceToken,
                 instanceId, currentFormId, webformInstanceRecordId,
                 selectedUrl, lastOkLaunch>>

\* handleBackToSelector, lines 102-109.
IframeHandleBackToSelector ==
  /\ IsIframe
  /\ SessionRendered
  /\ showSelector' = TRUE
  /\ selectedUrl' = Null
  /\ instanceToken' = Null
  /\ instanceId' = Null
  /\ currentFormId' = Null
  /\ webformInstanceRecordId' = Null
  /\ Quiet
  /\ NoBack
  /\ UNCHANGED <<component, groupedConditions, iframeUnused, isLoading, errorMessage, launches,
                 lastOkLaunch>>

\* ------------------------------------------------------------------ Next
\* Every step but the launcher's start of a launch.
NextBesidesStart ==
  \/ LoadScriptResolves
  \/ \E sdk \in {"sdk", Null} : LoadDocuSignResolves(sdk)
  \/ \E e \in Errors : LoadRejects(e)
  \/ \E k \in DOMAIN launches : CreateInstanceResolves(k)
  \/ \E k \in DOMAIN launches, e \in Errors : LaunchRejects(k, e)
  \/ \E k \in DOMAIN launches : CreateRecordResolves(k)
  \/ \E c \in BOOLEAN, o \in InitOutcomes : renderedCallback(c, o)
  \/ handleBackToSelector
  \/ disconnectedCallback
  \/ \E w \in DOMAIN widgets, t \in EventTypes \ {"sessionEnd"} :
       SdkEvent(w, t, Null)
  \/ \E w \in DOMAIN widgets, u \in SdkSessionEndTypes :
       SdkEvent(w, "sessionEnd", u)
  \/ \E m \in Messages : WindowMessage(m)
  \/ UpdateStatusResolves
  \/ \E e \in Errors : UpdateStatusRejects(e)
  \/ RelaunchLoadScriptResolves
  \/ \E sdk \in {"sdk", Null} : RelaunchLoadDocuSignResolves(sdk)
  \/ \E e \in Errors : RelaunchLoadRejects(e)
  \/ SdkLoadTimeout
  \/ \E r \in WireResults : wiredRecord(r)
  \/ reload
  \/ \E o \in ResumeOwners, r \in Refreshed, i \in InitOutcomes :
       RefreshResolves(o, r, i)
  \/ \E o \in ResumeOwners, e \in Errors : RefreshRejects(o, e)
  \/ \E w \in DOMAIN widgets, t \in EventTypes \ {"sessionEnd"} :
       RelaunchSdkEvent(w, t, Null)
  \/ \E w \in DOMAIN widgets, u \in SdkSessionEndTypes :
       RelaunchSdkEvent(w, "sessionEnd", u)
  \/ RelaunchUpdateStatusResolves
  \/ \E e \in Errors : RelaunchUpdateStatusRejects(e)
  \/ \E f \in FormIds, c \in ItemIds : IframeHandleConditionClick(f, c)
  \/ \E k \in DOMAIN launches : IframeCreateInstanceResolves(k)
  \/ \E k \in DOMAIN launches : IframeCreateRecordResolves(k)
  \/ \E k \in DOMAIN launches, e \in Errors : IframeLaunchRejects(k, e)
  \/ IframeHandleBackToSelector

\* The three components, the launcher being the one of betterWebform.js.
Next ==
  \/ \E f \in FormIds, c \in ItemIds : handleConditionClick(f, c)
  \/ NextBesidesStart

\* The same, the item wire delivering as well.
NextFetch ==
  \/ Next
  \/ \E r \in FetchedInLife : wiredConditions(r)
  \/ \E r \in FetchedInLife : IframeWiredConditions(r)

\* The item wire delivering to a component that does nothing else.
NextItems ==
  \/ \E r \in FetchedAlone : wiredConditions(r)
  \/ \E r \in FetchedAlone : IframeWiredConditions(r)

\* The three components, the launcher being the one with the selection step
\* (docusignWebformIframe.js 119-557).
NextSelect ==
  \/ \E s \in Selections : handleStartSelectedCondition(s)
  \/ NextBesidesStart

\* The component's life without the event history.
Spec == Init /\ [][Next]_vars
\* The same with the event history recorded.
SpecEvents == InitEvents /\ [][Next]_vars
\* The component's life with the item wire delivering an error or a list.
SpecFetch == InitFetch /\ [][NextFetch]_vars
\* Item lists of every shape delivered one after another.
SpecItems == Init /\ [][NextItems]_vars
\* The component's life with the selection step.
SpecSelect == InitSelect /\ [][NextSelect]_vars

\* ---------------------------------------------------------------------
\* Properties
\* ---------------------------------------------------------------------
\* The widgets constructed and not destroyed.
Live == {w \in DOMAIN widgets : ~widgets[w].destroyed}

\* A session of the launcher runs from a successful launch to the return to
\* the selector: it is the time the tracking record id is held. A relaunch
\* component always has its record id.
InSession == IsLauncher => webformInstanceRecordId # Null

\* C1: in the launcher, within one session each of the statuses Ready,
\* Submitted and In Progress is sent to the backend at most once, whatever
\* events arrive over the SDK channel and the window message channel.
C1_EachStatusSentAtMostOnce ==
  IsLauncher => \A s \in Statuses : sentCount[s] # "repeated"

\* C2: once a submitted event has been handled in a session, a later
\* sessionEnd event (any subtype, either channel) causes no updateStatus call.
C2_NoUpdateOnSessionEndAfterSubmitted ==
  (lastEvent.type = "sessionEnd" /\ "submitted" \in lastEvent.prior)
    => lastCalls = <<>>

\* C3: at most one widget that was created and not destroyed exists, and a
\* widget is constructed only after every earlier one had destroy() called:
\* all widgets but the newest are destroyed.
C3_OneLiveWidget ==
  /\ Cardinality(Live) <= 1
  /\ \A w \in DOMAIN widgets : w < Len(widgets) => widgets[w].destroyed
C3_Witness ==
  /\ IsRelaunch
  /\ Len(widgets) >= 2
  /\ Live = {Len(widgets)}
  /\ widgets[Len(widgets)].mounted

\* C4: after handleBackToSelector the component holds no widget (the field
\* is null and every widget has been destroyed) and no message listener (the
\* field is null and none is registered); the teardown calls came before the
\* reset of the session fields.
C4_BackReleasesEverything ==
  backTrace # <<>> =>
    /\ webformsInstance = NoWidget
    /\ Live = {}
    /\ messageHandler = Null
    /\ listeners = 0
    /\ backTrace[Len(backTrace)] = "reset"
    /\ \A i \in 1..(Len(backTrace) - 1) : backTrace[i] # "reset"
    /\ showSelector /\ webformInstanceRecordId = Null /\ ~_didEnd /\ ~_didSubmit
C4_Witness ==
  /\ backTrace = <<"removeEventListener", "destroy", "reset">>
  /\ Len(widgets) = 1
  /\ widgets[1].destroyed

\* C5: whenever the launcher shows the selector, and after disposal, no
\* undestroyed widget is held and no message listener is registered.
C5_SelectorViewHoldsNothing ==
  (IsLauncher /\ (showSelector \/ ~connected)) =>
    /\ Live = {}
    /\ listeners = 0
    /\ messageHandler = Null

\* C6: a sessionEnd event of subtype completed that the launcher handles, on
\* either channel, reports Submitted and never In Progress.
C6_CompletedReportsSubmitted ==
  (IsLauncher /\ lastEvent.handled /\ lastEvent.type = "sessionEnd"
     /\ lastEvent.sub = "completed")
    => \A i \in DOMAIN lastCalls : lastCalls[i] = "Submitted"

\* C7: a handled sessionEnd event with an unrecognized or missing subtype, in
\* a session where no submitted and no earlier sessionEnd event has been
\* handled, sends exactly one status update, In Progress.
C7_UnknownSessionEndReportsInProgress ==
  (InSession /\ lastEvent.handled /\ lastEvent.type = "sessionEnd"
     /\ lastEvent.sub \notin {"finishLater", "finish_later", "completed"}
     /\ lastEvent.prior \cap {"submitted", "sessionEnd"} = {})
    => lastSent = <<"In Progress">> /\ lastCalls = lastSent
C7_Witness ==
  /\ IsLauncher
  /\ lastEvent.chan = "message"
  /\ lastEvent.type = "sessionEnd"
  /\ lastEvent.sub = "other"
  /\ lastEvent.prior = {"ready"}
  /\ lastSent = <<"In Progress">>

C9_WidgetAfterRecordAndViewSwitch ==
  [][(IsLauncher /\ Len(widgets') > Len(widgets)) =>
       /\ ~showSelector
       /\ lastOkLaunch # 0
       /\ launches[lastOkLaunch] = "settled"
       /\ webformInstanceRecordId = RecordIdOf(lastOkLaunch)
       /\ ~hasRendered /\ hasRendered'
       /\ lastQuery' = "found"]_vars
C9_Witness ==
  /\ IsLauncher
  /\ Len(widgets) = 1
  /\ widgets[1].mounted
  /\ ~widgets[1].destroyed
  /\ widgets[1].launch = 1
  /\ ~showSelector
  /\ webformInstanceRecordId = RecordIdOf(1)

C12_NothingAttemptedUnlessInProgress ==
  [][(IsRelaunch /\ status' \notin {Null, "In Progress"})
       => /\ resumesStarted' = resumesStarted
          /\ Len(widgets') = Len(widgets)]_vars

\* C13: in the relaunch component, once the load timer has fired before the SDK
\* was loaded, errorMessage is the timeout error and isLoading is false, and the
\* step in which the SDK load then completes leaves both as they are, with or
\* without a pending resume.
C13_TimeoutErrorSurvivesLateLoad ==
  [][(/\ IsRelaunch
      /\ loadTimedOut
      /\ errorMessage = "DocuSign SDK took too long to load."
      /\ ~isLoading
      /\ ~sdkLoaded /\ sdkLoaded')
       => /\ errorMessage' = "DocuSign SDK took too long to load."
          /\ ~isLoading']_vars

\* C14: after the SDK load has failed or timed out, no step constructs a
\* widget in that component instance, whatever follows (late load completion,
\* record delivery, reload, item selection).
C14_NoWidgetAfterLoadFailure ==
  [][(\/ IsRelaunch /\ (loadTimedOut \/ connectPc = "failed")
      \/ IsLauncher /\ connectPc = "failed")
       => Len(widgets') = Len(widgets)]_vars

\* C15: a status-update call that settles, failed ones included, destroys no
\* widget and leaves the session view: in the relaunch component canRender
\* stays true, in the launcher showSelector stays false.
C15_FailedUpdateKeepsSession ==
  [][(pendingUpdates' < pendingUpdates)
       => /\ widgets' = widgets
          /\ webformsInstance' = webformsInstance
          /\ IsRelaunch => (canRender => canRender')
          /\ IsLauncher => (~showSelector => ~showSelector')]_vars

\* C16: launch handlers never overlap: at most one launch handler is suspended
\* at createWebformInstance or createWebformInstanceRecord at any time.
C16_AtMostOneLaunchInFlight ==
  Cardinality({k \in DOMAIN launches :
                 launches[k] \in {"createWebformInstance",
                                  "createWebformInstanceRecord"}}) <= 1

\* C17: the fallback message handler causes a status update only for messages
\* whose sender is one of the allowed identifiers and whose event type is ready,
\* submitted or sessionEnd; every other message (other sender, no sender, other
\* or missing type) causes no updateStatus call and changes no guard flag.
C17_OnlyAllowedSendersCauseUpdates ==
  [][(/\ lastEvent'.chan = "message"
      /\ ~(lastEvent'.sender \in AllowedSenders /\ lastEvent'.type \in EventTypes))
       => /\ lastCalls' = <<>>
          /\ UNCHANGED <<_didReady, _didSubmit, _didEnd>>]_vars

\* C18: the guard flags are all false when the widget of a newly created
\* session is constructed (so they are when it handles its first event), and no
\* flag goes from true to false in a step that leaves the mounted widget of the
\* current session in place: the flags are reset only for a new session.
C18_GuardsResetOnlyForNewSession ==
  [][/\ (Len(widgets') > Len(widgets))
          => (~_didReady' /\ ~_didSubmit' /\ ~_didEnd')
     /\ (/\ webformsInstance # NoWidget
         /\ webformsInstance' = webformsInstance
         /\ widgets[webformsInstance].mounted
         /\ ~widgets'[webformsInstance].destroyed)
          => /\ _didReady => _didReady'
             /\ _didSubmit => _didSubmit'
             /\ _didEnd => _didEnd']_vars

\* C19: when the item fetch delivers an error, errorMessage is set to a
\* user-visible message, groupedConditions is exactly what it was before the
\* delivery, and the view state and all session fields are unchanged.
C19_FetchErrorOnlySetsMessage ==
  [][(lastFetch'.kind = "error")
       => /\ errorMessage' = "Failed to load conditions"
          /\ groupedConditions' = groupedConditions
          /\ showSelector' = showSelector
          /\ UNCHANGED <<instanceToken, instanceId, currentFormId,
                         webformInstanceRecordId, pendingFormUrl,
                         pendingInstanceToken, selectedUrl, webformsInstance,
                         hasRendered, messageHandler, _didEnd, _didSubmit,
                         _didReady, widgets, listeners>>]_vars
\* An error is delivered during a session, after a list had been fetched.
C19_Witness ==
  /\ lastFetch.kind = "error"
  /\ errorMessage = "Failed to load conditions"
  /\ groupedConditions # <<>>
  /\ ~showSelector
  /\ webformInstanceRecordId # Null

\* C20: after a successful item fetch groupedConditions is a partition of the
\* fetched list by category: every fetched item is in exactly one group and
\* the groups hold nothing else, a group's category is its items' category (in
\* BetterWebform 'Other' for an item that has none), no group is empty, no two
\* groups share a category, and the items of a group are in fetched order.
C20_GroupsPartitionFetchedList ==
  lastFetch.kind = "data" =>
    LET g == groupedConditions
        data == lastFetch.data
        Places(x) == {p \in (DOMAIN g) \X (1..MaxItems) :
                        /\ p[2] \in DOMAIN g[p[1]].conditions
                        /\ g[p[1]].conditions[p[2]] = x}
    IN /\ \A i \in DOMAIN data : Cardinality(Places(data[i])) = 1
       /\ \A j \in DOMAIN g :
            /\ g[j].conditions # <<>>
            /\ \A k \in DOMAIN g[j].conditions :
                 LET x == g[j].conditions[k] IN
                 /\ \E i \in DOMAIN data : data[i] = x
                 /\ g[j].category = IF x.Category__c = Null /\ IsLauncher
                                    THEN "Other" ELSE x.Category__c
                 /\ \A l \in DOMAIN g[j].conditions :
                      k < l => x.Id < g[j].conditions[l].Id
            /\ \A l \in DOMAIN g : l # j => g[l].category # g[j].category

\* ---------------------------------------------------------------- C21
\* The create-session, create-tracking-record and token-refresh calls a step
\* issues: a launch that reaches an await, a refreshInstanceToken call.
CallsIssued ==
  (resumesStarted' - resumesStarted)
    + Cardinality({k \in DOMAIN launches :
                     /\ launches'[k] # launches[k]
                     /\ launches'[k] \in {"createWebformInstance",
                                          "createWebformInstanceRecord"}})

\* The step is a handler that the user or a record delivery starts: a launch
\* leaves "idle" (select/start), or the relaunch component calls resume() from
\* reload() or wiredRecord rather than from the rest of connectedCallback.
TriggeredStep ==
  \/ \E k \in DOMAIN launches :
       launches[k] = "idle" /\ launches'[k] = "createWebformInstance"
  \/ IsRelaunch /\ connectPc' = connectPc

\* C21: no remote operation is retried automatically. A step issues at most
\* one create-session, create-tracking-record or token-refresh call, and while
\* the message of a failure is standing (no handler started since has cleared
\* it) a call is issued only by a step that the user starts (select/start,
\* reload); a record delivery is let through as well, as the trigger the
\* claim's first half names.
C21_NoCallAfterFailureUntilUserActs ==
  [][/\ CallsIssued <= 1
     /\ (errorMessage # Null /\ CallsIssued > 0) => TriggeredStep]_vars

\* ---------------------------------------------------------------- C22
\* The relaunch component alone.
InitRelaunch == Constructed(FALSE, MaxLaunches) /\ IsRelaunch

NextRelaunch ==
  \/ RelaunchLoadScriptResolves
  \/ \E sdk \in {"sdk", Null} : RelaunchLoadDocuSignResolves(sdk)
  \/ \E e \in Errors : RelaunchLoadRejects(e)
  \/ SdkLoadTimeout
  \/ \E r \in WireResults : wiredRecord(r)
  \/ reload
  \/ \E o \in ResumeOwners, r \in Refreshed, i \in InitOutcomes :
       RefreshResolves(o, r, i)
  \/ \E o \in ResumeOwners, e \in Errors : RefreshRejects(o, e)
  \/ \E w \in DOMAIN widgets, t \in EventTypes \ {"sessionEnd"} :
       RelaunchSdkEvent(w, t, Null)
  \/ \E w \in DOMAIN widgets, u \in SdkSessionEndTypes :
       RelaunchSdkEvent(w, "sessionEnd", u)
  \/ RelaunchUpdateStatusResolves
  \/ \E e \in Errors : RelaunchUpdateStatusRejects(e)

\* What the platform and the network owe the component. A pending promise
\* settles: the two loads of connectedCallback (lines 64-65), every
\* refreshInstanceToken call (line 131), every updateWebformInstanceStatus
\* call (line 200).
LoadSettles ==
  \/ RelaunchLoadScriptResolves
  \/ \E sdk \in {"sdk", Null} : RelaunchLoadDocuSignResolves(sdk)
  \/ \E e \in Errors : RelaunchLoadRejects(e)
RefreshSettles(o) ==
  \/ \E r \in Refreshed, i \in InitOutcomes : RefreshResolves(o, r, i)
  \/ \E e \in Errors : RefreshRejects(o, e)
UpdateSettles ==
  \/ RelaunchUpdateStatusResolves
  \/ \E e \in Errors : RelaunchUpdateStatusRejects(e)
\* The record wire (line 85) does not stay silent: while the component has no
\* record it delivers one or an error.
WireProvisions ==
  /\ status = Null
  /\ \E r \in WireResults : r.kind # "none" /\ wiredRecord(r)

\* An armed timer fires unless it is cleared (lines 57-62).
Fairness ==
  /\ WF_vars(LoadSettles)
  /\ WF_vars(SdkLoadTimeout)
  /\ \A o \in ResumeOwners : WF_vars(RefreshSettles(o))
  /\ WF_vars(UpdateSettles)
  /\ WF_vars(WireProvisions)

\* The relaunch component with pending calls that settle, a timer that fires
\* and a wire that delivers.
SpecRelaunch == InitRelaunch /\ [][NextRelaunch]_vars /\ Fairness

\* C22: the relaunch component never spins forever. From every state in which
\* isLoading is true a state is reached in which it is false, whatever the
\* order of record deliveries, load results, timeout and reload() calls.
C22_SpinnerEventuallyStops == (IsRelaunch /\ isLoading) ~> ~isLoading

\* ---------------------------------------------------------------- C23
\* C23: in the relaunch component an 'In Progress' record is resumed in either
\* order of arrival. Nothing is refreshed or mounted while the SDK is not
\* loaded; the load completion that finds such a record waiting, and the
\* delivery of such a record to a component whose SDK is loaded, each call
\* refreshInstanceToken in the same step; and when that call resolves with a
\* token while the container is rendered, the widget is constructed (or the
\* SDK throws while it is).
C23_ResumedInEitherOrder ==
  [][IsRelaunch =>
       /\ ~sdkLoaded' => (resumesStarted' = 0 /\ widgets' = <<>>)
       /\ (/\ ~sdkLoaded /\ sdkLoaded'
           /\ status = "In Progress" /\ formUrl # Null /\ instanceId # Null)
            => resumesStarted' = resumesStarted + 1
       /\ (/\ sdkLoaded /\ status' # status /\ status' = "In Progress"
           /\ formUrl' # Null /\ instanceId' # Null)
            => resumesStarted' = resumesStarted + 1
       /\ (/\ lastRefresh' # NotRefreshed /\ lastRefresh'.instanceToken # Null
           /\ canRender)
            => \/ /\ Len(widgets') = Len(widgets) + 1
                  /\ webformsInstance' = Len(widgets')
                  /\ widgets'[webformsInstance'].url = formUrl'
               \/ errorMessage' = "sdk error"]_vars

\* The record was resumed once and its widget is mounted.
C23_Witness ==
  /\ IsRelaunch
  /\ status = "In Progress"
  /\ resumesStarted = 1
  /\ connectPc = "done"
  /\ lastRefresh # NotRefreshed
  /\ Len(widgets) = 1
  /\ widgets[1].mounted
  /\ ~widgets[1].destroyed
  /\ ~isLoading

\* ---------------------------------------------------------------- C24
\* C24: within one session the reported status never regresses. Once
\* 'Submitted' has been sent in the session, no step calls
\* updateStatus('In Progress') or updateStatus('Ready'), on either channel.
C24_NoRegressionAfterSubmitted ==
  [][sentCount["Submitted"] # "never" =>
       \A i \in DOMAIN lastCalls' :
         lastCalls'[i] \notin {"In Progress", "Ready"}]_vars

\* ---------------------------------------------------------------- C25
\* C25: whenever the embedded view is shown, what the widget displays and the
\* tracking record that status updates go to come from one launch: the URL
\* and token of the mounted widget (in docusignWebformIframe selectedUrl and
\* instanceToken) and webformInstanceRecordId are those of the same launch k.
C25_SessionAndRecordOfOneLaunch ==
  /\ (/\ IsLauncher /\ ~showSelector
      /\ webformsInstance # NoWidget
      /\ widgets[webformsInstance].mounted
      /\ ~widgets[webformsInstance].destroyed)
       => \E k \in DOMAIN launches :
            /\ widgets[webformsInstance].url = FormUrlOf(k)
            /\ widgets[webformsInstance].instanceToken = TokenOf(k)
            /\ webformInstanceRecordId = RecordIdOf(k)
  /\ (IsIframe /\ ~showSelector)
       => \E k \in DOMAIN launches :
            /\ selectedUrl = FormUrlOf(k)
            /\ instanceToken = TokenOf(k)
            /\ webformInstanceRecordId = RecordIdOf(k)

\* ---------------------------------------------------------------- C26
\* C26: every successful launch gets its widget once the component renders.
\* The step that completes a launch (tracking record created, session view)
\* leaves the render guard open, so that the render that follows constructs
\* the widget; and a renderedCallback that finds the container, the SDK not
\* throwing, constructs and mounts the widget of the launch that last
\* succeeded.
C26_SuccessfulLaunchGetsItsWidget ==
  [][IsLauncher =>
       /\ lastOkLaunch' # lastOkLaunch
            => (~showSelector' /\ ~hasRendered'
                  /\ pendingFormUrl' = FormUrlOf(lastOkLaunch')
                  /\ pendingInstanceToken' = TokenOf(lastOkLaunch'))
       /\ (lastQuery' = "found" /\ ~showSelector')
            => /\ Len(widgets') = Len(widgets) + 1
               /\ widgets'[Len(widgets')].mounted
               /\ widgets'[Len(widgets')].url = FormUrlOf(lastOkLaunch)
               /\ widgets'[Len(widgets')].instanceToken = TokenOf(lastOkLaunch)]_vars

\* ---------------------------------------------------------------- C27
\* The messages of the launch handlers' precondition failures.
PreconditionMessages ==
  {"Select a condition to launch its webform.",
   "DocuSign library not loaded yet. Please try again in a moment.",
   "Missing form information",
   "Form ID not found for this condition",
   "DBQ Webform record ID not found"}

\* C27: a launch whose preconditions fail (SDK not loaded, nothing selected,
\* form id or item id missing) only reports it. The step that sets one of
\* these messages issues no remote call, stays in the selector view, changes
\* no session field, and ends with isLoading false.
C27_FailedPreconditionOnlyReports ==
  [][(errorMessage' # errorMessage /\ errorMessage' \in PreconditionMessages)
       => /\ launches' = launches
          /\ resumesStarted' = resumesStarted
          /\ pendingUpdates' = pendingUpdates
          /\ showSelector /\ showSelector'
          /\ UNCHANGED <<instanceToken, instanceId, currentFormId,
                         webformInstanceRecordId, pendingFormUrl,
                         pendingInstanceToken, selectedUrl, webformsInstance,
                         widgets, hasRendered, _didEnd, _didSubmit, _didReady>>
          /\ ~isLoading']_vars

\* ---------------------------------------------------------------- C28
\* C28: the launcher issues no backend status update without a tracking
\* record id. While webformInstanceRecordId is null (before the first launch
\* succeeds, and after handleBackToSelector until the next one does) an
\* event of either channel, whatever updateStatus calls its handler makes,
\* adds no updateWebformInstanceStatus call.
C28_NoUpdateWithoutRecordId ==
  [][(IsLauncher /\ webformInstanceRecordId = Null)
       => (pendingUpdates' <= pendingUpdates /\ lastSent' = <<>>)]_vars

\* A widget destroyed by handleBackToSelector has delivered an event late: its
\* handler called updateStatus and nothing was sent.
C28_Witness ==
  /\ IsLauncher
  /\ showSelector
  /\ webformInstanceRecordId = Null
  /\ webformsInstance = NoWidget
  /\ \E w \in DOMAIN widgets : widgets[w].destroyed
  /\ lastEvent.chan = "sdk"
  /\ lastCalls # <<>>
  /\ lastSent = <<>>
  /\ pendingUpdates = 0

====
